---- MODULE Spec2Model ----
(***************************************************************************)
(* The telemetry dashboard's refresh pipeline: the auto-refresh scheduler  *)
(* (flag, interval timer, interval input) and the refresh cycles it        *)
(* starts, for the two variants of the dashboard script:                   *)
(*   "part"   - src/unnamed/part_000   (sequential awaits)                 *)
(*   "script" - src/dashboard/script.js (Promise.all, detached charts)     *)
(* One behaviour is one page running one of the two scripts.               *)
(* The page has the panel elements and the three chart canvases; it may    *)
(* lack the toggle button and the interval input, the two elements whose   *)
(* absence the scheduler code tests for. A fetch either gives a            *)
(* {success: true} envelope with data to show or throws. Time is not       *)
(* modelled: an armed timer carries its interval and may tick at any       *)
(* moment.                                                                 *)
(***************************************************************************)
EXTENDS Integers, Sequences, FiniteSets, TLC

\* Bounds of the model.
MaxCycles == 2   \* refreshData invocations in one behaviour
MaxTimers == 2   \* interval timers that may be armed at once
MaxPoints == 2   \* points in one time-series response
MaxPolls  == 2   \* time-series responses told apart by their timestamps
MaxChecks == 1   \* health checks in one behaviour

VARIABLES
  variant,             \* which script the page loads
  backend,             \* "flaky": data requests may fail; "up": none does
  loaded,              \* DOMContentLoaded has run
  hasBtn,              \* the page has #autoRefreshBtn
  intervalEl,          \* #refreshInterval: [present, value]
  autoRefreshEnabled,  \* let autoRefreshEnabled
  refreshTimer,        \* let refreshTimer (0 is null)
  timers,              \* the interval timers armed in the browser
  cycles,              \* the refreshData invocations, in order of start
  health,              \* the /health poll: checks started, in flight, notified
  surface,             \* the panel or chart whose rendering is followed
  input,               \* what was last rendered into it
  shown                \* what it shows

vars == <<variant, backend, loaded, hasBtn, intervalEl, autoRefreshEnabled,
          refreshTimer, timers, cycles, health, surface, input, shown>>

page == <<variant, backend, hasBtn>>
sched == <<autoRefreshEnabled, refreshTimer, timers>>
render == <<surface, input, shown>>

----------------------------------------------------------------------------
\* parseInt and the interval input

\* parseInt's NaN (no input string of the model parses to a negative number).
NaN == -1

Digits == {"0", "1", "2", "3", "4", "5", "6", "7", "8", "9"}

DigitVal(ch) ==
  CASE ch = "0" -> 0 [] ch = "1" -> 1 [] ch = "2" -> 2 [] ch = "3" -> 3
    [] ch = "4" -> 4 [] ch = "5" -> 5 [] ch = "6" -> 6 [] ch = "7" -> 7
    [] ch = "8" -> 8 [] ch = "9" -> 9

\* The longest prefix of s made of decimal digits.
RECURSIVE DigitPrefix(_)
DigitPrefix(s) ==
  IF s = <<>> \/ Head(s) \notin Digits THEN <<>>
  ELSE <<Head(s)>> \o DigitPrefix(Tail(s))

RECURSIVE DigitsValue(_, _)
DigitsValue(s, acc) ==
  IF s = <<>> THEN acc ELSE DigitsValue(Tail(s), acc * 10 + DigitVal(Head(s)))

\* parseInt(s) for a string s given as its characters: the leading digits
\* as a decimal number, NaN when there is none.
parseInt(s) ==
  IF DigitPrefix(s) = <<>> THEN NaN ELSE DigitsValue(DigitPrefix(s), 0)

\* The texts the interval input may hold.
InputValues ==
  { <<>>, <<"a">>, <<"3", "0", "0", "0">> }

NoElement == [present |-> FALSE, value |-> <<>>]

\* parseInt(intervalEl?.value || '10000')  (part_000)
partInterval(el) ==
  IF el.present /\ el.value # <<>>
    THEN parseInt(el.value)
    ELSE parseInt(<<"1", "0", "0", "0", "0">>)

\* parseInt(getEl('refreshInterval')?.value) || 5000  (script.js)
scriptInterval(el) ==
  LET n == IF el.present THEN parseInt(el.value) ELSE NaN
  IN IF n = NaN \/ n = 0 THEN 5000 ELSE n

----------------------------------------------------------------------------
\* Timers

TimerIds == 1 .. (MaxTimers + 1)

\* clearInterval(h): the timer with handle h, if armed, is released.
clearInterval(ts, h) == { t \in ts : t.id # h }

\* setInterval returns a handle that no armed timer has and that refreshTimer
\* (held) does not hold: the least such handle stands for it.
freshId(ts, held) ==
  CHOOSE i \in TimerIds :
    /\ i # held
    /\ \A t \in ts : t.id # i
    /\ \A j \in TimerIds : (j # held /\ \A t \in ts : t.id # j) => i <= j

----------------------------------------------------------------------------
\* Refresh cycles

PartEndpoints == {"latest", "summary", "ts_dht22", "ts_system", "ts_rack"}
ScriptEndpoints == PartEndpoints \cup {"power_flow", "analysis"}
TsEndpoints == {"ts_dht22", "ts_system", "ts_rack"}

Endpoints(v) == IF v = "part" THEN PartEndpoints ELSE ScriptEndpoints

\* The endpoints that are out of order alone in some cycle of the model: the
\* snapshot, the summary and the first time series.
Faulty == {"latest", "summary", "ts_dht22"}

\* The backend as one cycle meets it, given as the set of endpoints that are
\* down for this cycle's requests: it answers every request, or fails every
\* request, or a single endpoint is out of order. A backend that is up
\* answers every request of every cycle.
Outages(v) ==
  IF backend = "up" THEN {{}} ELSE {{}, Endpoints(v)} \cup { {e} : e \in Faulty }

\* What fetchJson gives cycle c for endpoint e: "ok" is a {success: true}
\* envelope with data to show, "fail" a network error or a non-success HTTP
\* status (fetchJson throws).
fetchJson(c, e) == IF e \in c.down THEN "fail" ELSE "ok"

\* The part of the page each endpoint's data is rendered into.
Feeds(e) ==
  CASE e = "latest"     -> "panels"
    [] e = "summary"    -> "totalRecords"
    [] e = "power_flow" -> "powerFlow"
    [] e = "analysis"   -> "analysis"
    [] e = "ts_dht22"   -> "chart_dht22"
    [] e = "ts_system"  -> "chart_system"
    [] e = "ts_rack"    -> "chart_rack"

\* refreshData() up to its first await.
newCycle(trigger, down) ==
  [ trigger |-> trigger,
    down    |-> down,
    pc      |-> IF variant = "part" THEN "latest" ELSE "await_all",
    wrote   |-> {},
    errors  |-> 0 ]

\* The fetches of cycle c that are issued and not settled.
InFlight(c) ==
  CASE c.pc = "await_all"    -> {"latest", "summary", "power_flow", "analysis"}
    [] c.pc = "await_charts" -> TsEndpoints
    [] c.pc = "done"         -> {}
    [] OTHER                 -> {c.pc}

----------------------------------------------------------------------------
\* part_000: refreshData and updateCharts, one await at a time

\* refreshData without its try/catch: a throw of fetchJson leaves the
\* invocation with a rejection nobody handles.
refreshDataStep_uncaught(c) ==
  LET r == fetchJson(c, c.pc) IN
  IF r = "fail"
    THEN [c EXCEPT !.pc = "uncaught"]
  ELSE IF c.pc = "latest"
    THEN [c EXCEPT !.pc = "summary", !.wrote = @ \cup {"panels", "powerFlow"}]
    ELSE [c EXCEPT !.pc = "ts_dht22", !.wrote = @ \cup {"totalRecords"}]

\* refreshData resumed at "await fetchJson(/latest)" or "await
\* fetchJson(/summary)": it runs to its next await, or to its end through
\* the catch block when fetchJson throws.
refreshDataStep(c) ==
  LET r == fetchJson(c, c.pc) IN
  IF r = "fail"
    THEN [c EXCEPT !.pc = "done", !.errors = @ + 1]
  ELSE IF c.pc = "latest"
    THEN [c EXCEPT !.pc = "summary",
                   !.wrote = IF r = "ok" THEN @ \cup {"panels", "powerFlow"} ELSE @]
    ELSE [c EXCEPT !.pc = "ts_dht22",
                   !.wrote = IF r = "ok" THEN @ \cup {"totalRecords"} ELSE @]

nextChart(pc) ==
  CASE pc = "ts_dht22"  -> "ts_system"
    [] pc = "ts_system" -> "ts_rack"
    [] pc = "ts_rack"   -> "done"

\* updateCharts that blanks a chart whose fetch failed.
updateChartsStep_clearing(c) ==
  LET r    == fetchJson(c, c.pc)
      next == IF r = "fail" THEN "done" ELSE nextChart(c.pc)
      tail == IF next = "done" THEN {"lastUpdate"} ELSE {}
  IN [c EXCEPT !.pc = next, !.wrote = @ \cup {Feeds(c.pc)} \cup tail]

\* updateCharts resumed at one of its three awaits. A throw is caught inside
\* updateCharts, which then returns; when updateCharts returns, refreshData
\* writes the last-updated time and ends.
updateChartsStep(c) ==
  LET r    == fetchJson(c, c.pc)
      next == IF r = "fail" THEN "done" ELSE nextChart(c.pc)
      drew == IF r = "ok" THEN {Feeds(c.pc)} ELSE {}
      tail == IF next = "done" THEN {"lastUpdate"} ELSE {}
  IN [c EXCEPT !.pc = next, !.wrote = @ \cup drew \cup tail]

\* refreshData whose catch block also stops auto-refresh.
refreshData_stopping(i) ==
  /\ variant = "part"
  /\ i \in DOMAIN cycles
  /\ cycles[i].pc \in {"latest", "summary"}
  /\ cycles' = [cycles EXCEPT ![i] = refreshDataStep(cycles[i])]
  /\ IF cycles'[i].errors > cycles[i].errors
       THEN /\ autoRefreshEnabled' = FALSE
            /\ timers' = clearInterval(timers, refreshTimer)
            /\ refreshTimer' = 0
       ELSE UNCHANGED sched
  /\ UNCHANGED <<page, render, health, loaded, intervalEl>>

refreshData(i) ==
  /\ variant = "part"
  /\ i \in DOMAIN cycles
  /\ cycles[i].pc \in {"latest", "summary"}
  /\ cycles' = [cycles EXCEPT ![i] = refreshDataStep(cycles[i])]
  /\ UNCHANGED <<page, render, health, loaded, intervalEl, sched>>

updateCharts(i) ==
  /\ variant = "part"
  /\ i \in DOMAIN cycles
  /\ cycles[i].pc \in TsEndpoints
  /\ cycles' = [cycles EXCEPT ![i] = updateChartsStep(cycles[i])]
  /\ UNCHANGED <<page, render, health, loaded, intervalEl, sched>>

----------------------------------------------------------------------------
\* script.js: refreshData and updateCharts

\* refreshData resumed when Promise.all of the four fetches settles (each
\* fetch's rejection is turned into null): the panels of the successful
\* fetches are written, updateCharts() is called without await and issues
\* the time-series fetches, and the last-updated time is written.
script_refreshDataStep(c) ==
  LET got == { e \in {"latest", "summary", "power_flow", "analysis"} : fetchJson(c, e) = "ok" }
  IN [c EXCEPT !.pc = "await_charts",
               !.wrote = @ \cup { Feeds(e) : e \in got } \cup {"lastUpdate"}]

\* updateCharts resumed when Promise.all of the time-series fetches settles.
script_updateChartsStep(c) ==
  [c EXCEPT !.pc = "done",
            !.wrote = @ \cup { Feeds(e) : e \in { x \in TsEndpoints : fetchJson(c, x) = "ok" } }]

script_refreshData(i) ==
  /\ variant = "script"
  /\ i \in DOMAIN cycles
  /\ cycles[i].pc = "await_all"
  /\ cycles' = [cycles EXCEPT ![i] = script_refreshDataStep(cycles[i])]
  /\ UNCHANGED <<page, render, health, loaded, intervalEl, sched>>

script_updateCharts(i) ==
  /\ variant = "script"
  /\ i \in DOMAIN cycles
  /\ cycles[i].pc = "await_charts"
  /\ cycles' = [cycles EXCEPT ![i] = script_updateChartsStep(cycles[i])]
  /\ UNCHANGED <<page, render, health, loaded, intervalEl, sched>>

\* A call of refreshData(): a new cycle, whatever the other cycles do.
invoke(trigger) ==
  /\ Len(cycles) < MaxCycles
  /\ \E d \in Outages(variant) : cycles' = Append(cycles, newCycle(trigger, d))

----------------------------------------------------------------------------
\* The auto-refresh scheduler

\* startAutoRefresh without its clearInterval: the old timer keeps running.
startAutoRefresh_leak(el) ==
  LET id == freshId(timers, refreshTimer)
  IN /\ Cardinality(timers) < MaxTimers
     /\ timers' = timers \cup {[id |-> id, interval |-> partInterval(el)]}
     /\ refreshTimer' = id

\* part_000 startAutoRefresh, el being #refreshInterval as the call finds it
startAutoRefresh(el) ==
  LET cleared == IF refreshTimer # 0 THEN clearInterval(timers, refreshTimer) ELSE timers
      id      == freshId(cleared, refreshTimer)
  IN /\ Cardinality(cleared) < MaxTimers
     /\ timers' = cleared \cup {[id |-> id, interval |-> partInterval(el)]}
     /\ refreshTimer' = id

\* script.js startAuto, el being #refreshInterval as the call finds it
startAuto(el) ==
  LET cleared == clearInterval(timers, refreshTimer)
      id      == freshId(cleared, refreshTimer)
  IN /\ Cardinality(cleared) < MaxTimers
     /\ timers' = cleared \cup {[id |-> id, interval |-> scriptInterval(el)]}
     /\ refreshTimer' = id

\* part_000 toggleAutoRefresh: the flag is flipped before the button is
\* looked up, and without the button nothing else happens.
toggleAutoRefresh ==
  /\ variant = "part"
  /\ loaded
  /\ autoRefreshEnabled' = ~autoRefreshEnabled
  /\ IF ~hasBtn
       THEN UNCHANGED <<refreshTimer, timers>>
     ELSE IF ~autoRefreshEnabled
       THEN startAutoRefresh(intervalEl)
     ELSE IF refreshTimer # 0
       THEN /\ timers' = clearInterval(timers, refreshTimer)
            /\ refreshTimer' = 0
       ELSE UNCHANGED <<refreshTimer, timers>>
  /\ UNCHANGED <<page, render, health, loaded, intervalEl, cycles>>

\* script.js toggleAuto: refreshTimer keeps the released handle.
toggleAuto ==
  /\ variant = "script"
  /\ loaded
  /\ autoRefreshEnabled' = ~autoRefreshEnabled
  /\ IF ~autoRefreshEnabled
       THEN startAuto(intervalEl)
       ELSE /\ timers' = clearInterval(timers, refreshTimer)
            /\ UNCHANGED refreshTimer
  /\ UNCHANGED <<page, render, health, loaded, intervalEl, cycles>>

\* part_000: the "change" listener of #refreshInterval, the user having
\* typed v.
refreshIntervalChange(v) ==
  /\ variant = "part"
  /\ loaded
  /\ intervalEl.present
  /\ v # intervalEl.value
  /\ intervalEl' = [intervalEl EXCEPT !.value = v]
  /\ IF autoRefreshEnabled
       THEN startAutoRefresh(intervalEl')
       ELSE UNCHANGED <<refreshTimer, timers>>
  /\ UNCHANGED <<page, render, health, loaded, autoRefreshEnabled, cycles>>

\* script.js registers no listener on #refreshInterval: what the user types
\* is read by the next startAuto only.
script_refreshIntervalEdit(v) ==
  /\ variant = "script"
  /\ loaded
  /\ intervalEl.present
  /\ v # intervalEl.value
  /\ intervalEl' = [intervalEl EXCEPT !.value = v]
  /\ UNCHANGED <<page, render, health, loaded, sched, cycles>>

\* part_000: the callback of the interval timer t.
timerTick(t) ==
  /\ variant = "part"
  /\ t \in timers
  /\ IF autoRefreshEnabled THEN invoke("timer") ELSE UNCHANGED cycles
  /\ UNCHANGED <<page, render, health, loaded, intervalEl, sched>>

\* script.js: the callback of the interval timer t.
script_timerTick(t) ==
  /\ variant = "script"
  /\ t \in timers
  /\ IF autoRefreshEnabled THEN invoke("timer") ELSE UNCHANGED cycles
  /\ UNCHANGED <<page, render, health, loaded, intervalEl, sched>>

\* part_000: the manual-refresh trigger (the click listener, or
\* window.refreshData).
manualRefresh ==
  /\ variant = "part"
  /\ loaded
  /\ invoke("manual")
  /\ UNCHANGED <<page, render, health, loaded, intervalEl, sched>>

\* script.js: refreshData is a global function, the page's manual-refresh
\* trigger calls it.
script_manualRefresh ==
  /\ variant = "script"
  /\ loaded
  /\ invoke("manual")
  /\ UNCHANGED <<page, render, health, loaded, intervalEl, sched>>

\* part_000: the DOMContentLoaded handler (initial load, then the timer).
onDOMContentLoaded ==
  /\ variant = "part"
  /\ ~loaded
  /\ loaded' = TRUE
  /\ invoke("load")
  /\ startAutoRefresh(intervalEl)
  /\ UNCHANGED <<page, render, health, intervalEl, autoRefreshEnabled>>

\* script.js: the DOMContentLoaded handler.
script_onDOMContentLoaded ==
  /\ variant = "script"
  /\ ~loaded
  /\ loaded' = TRUE
  /\ invoke("load")
  /\ startAuto(intervalEl)
  /\ UNCHANGED <<page, render, health, intervalEl, autoRefreshEnabled>>

----------------------------------------------------------------------------
\* The script's top-level state before DOMContentLoaded.
Scheduler0 ==
  /\ loaded = FALSE
  /\ autoRefreshEnabled = TRUE
  /\ refreshTimer = 0
  /\ timers = {}
  /\ cycles = <<>>

\* No health check has been started.
Health0 == health = [started |-> 0, inflight |-> 0, notes |-> 0]

\* No single panel or chart is followed.
NoInput == [kind |-> "none"]
Render0 == surface = "none" /\ input = NoInput /\ shown = <<>>

\* The page before DOMContentLoaded: either script, with or without the
\* toggle button and the interval input.
Init ==
  /\ variant \in {"part", "script"}
  /\ backend = "flaky"
  /\ hasBtn \in (IF variant = "part" THEN BOOLEAN ELSE {TRUE})
  /\ intervalEl \in {NoElement} \cup { [present |-> TRUE, value |-> v] : v \in InputValues }
  /\ Scheduler0
  /\ Health0
  /\ Render0

Next ==
  \/ onDOMContentLoaded
  \/ script_onDOMContentLoaded
  \/ \E t \in timers : timerTick(t)
  \/ \E t \in timers : script_timerTick(t)
  \/ manualRefresh
  \/ script_manualRefresh
  \/ toggleAutoRefresh
  \/ toggleAuto
  \/ \E v \in InputValues : refreshIntervalChange(v)
  \/ \E v \in InputValues : script_refreshIntervalEdit(v)
  \/ \E i \in DOMAIN cycles : refreshData(i)
  \/ \E i \in DOMAIN cycles : updateCharts(i)
  \/ \E i \in DOMAIN cycles : script_refreshData(i)
  \/ \E i \in DOMAIN cycles : script_updateCharts(i)

Spec == Init /\ [][Next]_vars

----------------------------------------------------------------------------
\* part_000: the periodic health check

\* What a /health request may come to: status 'ok', an answer with another
\* status, a failed request.
HealthAnswers == {"ok", "other", "fail"}

\* checkAPIHealth(): true for status 'ok', false otherwise (a throw of
\* fetchJson is caught and gives false).
checkAPIHealth(r) == r = "ok"

\* The 30-second interval set at the script's top level fires: its callback
\* runs to "await checkAPIHealth()".
healthTick ==
  /\ variant = "part"
  /\ health.started < MaxChecks
  /\ health' = [health EXCEPT !.started = @ + 1, !.inflight = @ + 1]
  /\ UNCHANGED <<page, render, loaded, intervalEl, sched, cycles>>

\* The health callback whose notification also pauses auto-refresh.
healthSettle_pausing(r) ==
  /\ variant = "part"
  /\ health.inflight > 0
  /\ health' = [health EXCEPT !.inflight = @ - 1,
                              !.notes = IF checkAPIHealth(r) THEN @ ELSE @ + 1]
  /\ IF checkAPIHealth(r)
       THEN UNCHANGED sched
       ELSE /\ autoRefreshEnabled' = FALSE
            /\ timers' = clearInterval(timers, refreshTimer)
            /\ refreshTimer' = 0
  /\ UNCHANGED <<page, render, loaded, intervalEl, cycles>>

\* A /health request comes to r: the callback resumes, and raises the
\* 'API connection lost' notification unless the API is healthy.
healthSettle(r) ==
  /\ variant = "part"
  /\ health.inflight > 0
  /\ health' = [health EXCEPT !.inflight = @ - 1,
                              !.notes = IF checkAPIHealth(r) THEN @ ELSE @ + 1]
  /\ UNCHANGED <<page, render, loaded, intervalEl, sched, cycles>>

\* A page that runs part_000, with or without the toggle button and the
\* interval input, whose data requests are all answered.
HealthInit ==
  /\ variant = "part"
  /\ backend = "up"
  /\ hasBtn \in BOOLEAN
  /\ intervalEl \in {NoElement} \cup { [present |-> TRUE, value |-> v] : v \in InputValues }
  /\ Scheduler0
  /\ Health0
  /\ Render0

HealthNext ==
  \/ healthTick
  \/ \E r \in HealthAnswers : healthSettle(r)
  \/ onDOMContentLoaded
  \/ \E t \in timers : timerTick(t)
  \/ manualRefresh
  \/ toggleAutoRefresh
  \/ \E v \in InputValues : refreshIntervalChange(v)
  \/ \E i \in DOMAIN cycles : refreshData(i)
  \/ \E i \in DOMAIN cycles : updateCharts(i)

HealthSpec == HealthInit /\ [][HealthNext]_vars

----------------------------------------------------------------------------
\* Charts: what a time-series response becomes on its chart

Charts == {"chart_dht22", "chart_system", "chart_rack"}

\* A field of a point or reading that is null or missing.
Null == "null"
Values == {Null, "7"}

\* The fields of a point that a chart plots, one per dataset.
Series(ch) ==
  CASE ch = "chart_dht22"  -> <<"temperature", "humidity">>
    [] ch = "chart_system" -> <<"ram_usage_percent", "cpu_usage_percent",
                                "storage_usage_percent">>
    [] ch = "chart_rack"   -> <<"temperature", "humidity">>

Fields(ch) == { Series(ch)[k] : k \in DOMAIN Series(ch) }

PointStatus(ch) == IF ch = "chart_rack" THEN {"ONLINE"} ELSE {"success", "error"}

\* The j-th point of the k-th poll's response is taken one minute after the
\* point before it; timestamps count minutes.
Timestamp(k, j) == (k - 1) * MaxPoints + j

\* toLocaleTimeString with 2-digit hour and minute.
formatTime(ts) == <<(ts \div 60) % 24, ts % 60>>

PointsAt(ch, ts) ==
  { [timestamp |-> ts, status |-> st, f |-> f] :
      st \in PointStatus(ch), f \in [Fields(ch) -> Values] }

\* The point sequences the k-th poll may be answered with: at most MaxPoints
\* points, oldest first.
SeriesOf(ch, k) ==
  UNION { { q \in [1 .. n -> UNION { PointsAt(ch, Timestamp(k, j)) : j \in 1 .. n }] :
              \A j \in 1 .. n : q[j].timestamp = Timestamp(k, j) } :
          n \in 0 .. MaxPoints }

\* The {success: true} time-series responses of the model.
Responses(ch) ==
  UNION { { [kind |-> "series", poll |-> k, data |-> d] : d \in SeriesOf(ch, k) } :
          k \in 1 .. MaxPolls }

\* new Chart(...): no labels, empty datasets.
EmptyChart(ch) ==
  [labels |-> <<>>, datasets |-> [k \in DOMAIN Series(ch) |-> <<>>]]

\* part_000: the filter of each chart.
validData(ch, data) ==
  LET keep(d) ==
        CASE ch = "chart_dht22"  -> d.status = "success" /\ d.f["temperature"] # Null
          [] ch = "chart_system" -> d.status = "success"
          [] ch = "chart_rack"   -> d.f["temperature"] # Null /\ d.f["humidity"] # Null
  IN SelectSeq(data, keep)

\* part_000: the value plotted for field fld of point d (x || 0 on the
\* system chart, x elsewhere).
plotted(ch, d, fld) ==
  IF ch = "chart_system" /\ d.f[fld] = Null THEN "0" ELSE d.f[fld]

\* part_000 updateCharts, the block of chart ch once its fetch has given a
\* {success: true} response with points data; old is what the chart holds.
updateCharts_draw(ch, old, data) ==
  IF Len(data) > 0
    THEN LET v == validData(ch, data) IN
         [ labels   |-> [j \in DOMAIN v |-> formatTime(v[j].timestamp)],
           datasets |-> [k \in DOMAIN Series(ch) |->
                           [j \in DOMAIN v |-> plotted(ch, v[j], Series(ch)[k])]] ]
    ELSE old

\* script.js updateCharts, the block of chart ch.
script_updateCharts_draw(ch, data) ==
  [ labels   |-> [j \in DOMAIN data |-> formatTime(data[j].timestamp)],
    datasets |-> [k \in DOMAIN Series(ch) |->
                    [j \in DOMAIN data |-> data[j].f[Series(ch)[k]]]] ]

\* The polls of the followed chart's time series answered so far.
Polled == IF input.kind = "series" THEN input.poll ELSE 0

\* The next time-series fetch of the followed chart is answered with r.
drawChart(r) ==
  /\ variant = "part"
  /\ surface \in Charts
  /\ r.poll = Polled + 1
  /\ input' = r
  /\ shown' = updateCharts_draw(surface, shown, r.data)
  /\ UNCHANGED <<page, surface, health, loaded, intervalEl, sched, cycles>>

script_drawChart(r) ==
  /\ variant = "script"
  /\ surface \in Charts
  /\ r.poll = Polled + 1
  /\ input' = r
  /\ shown' = script_updateCharts_draw(surface, r.data)
  /\ UNCHANGED <<page, surface, health, loaded, intervalEl, sched, cycles>>

\* A page whose scheduler is left alone and one of whose charts is followed.
ChartInit ==
  /\ variant \in {"part", "script"}
  /\ backend = "up"
  /\ hasBtn = TRUE
  /\ intervalEl = NoElement
  /\ Scheduler0
  /\ Health0
  /\ surface \in Charts
  /\ input = NoInput
  /\ shown = EmptyChart(surface)

ChartNext ==
  \/ \E r \in Responses(surface) : drawChart(r)
  \/ \E r \in Responses(surface) : script_drawChart(r)

ChartSpec == ChartInit /\ [][ChartNext]_vars

----------------------------------------------------------------------------
\* Panels: what a reading of the snapshot becomes on its panel

Panels(v) ==
  IF v = "part" THEN {"pzem016", "pzem017", "dht22", "system", "rack"}
                ELSE {"dht22", "system", "rack"}

\* The panel has no reading in the snapshot (a missing key, an empty list,
\* a null).
Absent == [kind |-> "absent"]

\* The fields of a reading that its panel shows, in the order of its lines.
PanelFields(p) ==
  CASE p = "pzem016" -> <<"voltage_v", "current_a", "power_w", "energy_kwh",
                          "frequency_hz", "power_factor">>
    [] p = "pzem017" -> <<"voltage_v", "current_a", "power_w", "energy_kwh",
                          "solar_status">>
    [] p = "dht22"   -> <<"temperature", "humidity">>
    [] p = "system"  -> <<"ram_usage_percent", "cpu_usage_percent",
                          "storage_usage_percent", "cpu_temperature">>
    [] p = "rack"    -> <<"lamp", "exhaust", "temperature", "humidity">>

FieldValues(fld) ==
  CASE fld \in {"lamp", "exhaust"} -> {Null, "ON"}
    [] fld = "solar_status"        -> {Null, "Charging"}
    [] OTHER                       -> Values

\* The status a reading carries; a PZEM reading also carries the status of
\* its parsed data.
ReadingStatus(p) ==
  IF p = "rack" THEN {"ONLINE", "OFFLINE", "online", Null} ELSE {"success", "error"}
ParsedStatus(p) ==
  IF p \in {"pzem016", "pzem017"} THEN {"success", "error"} ELSE {Null}
ErrorMessages(p) == IF p = "rack" THEN {Null} ELSE {Null, "sensor timeout"}

Readings(p) ==
  { [kind |-> "reading", status |-> st, parsed |-> ps, error_message |-> m,
     timestamp |-> "2024-01-01T00:00:00Z", f |-> f] :
      st \in ReadingStatus(p), ps \in ParsedStatus(p), m \in ErrorMessages(p),
      f \in { g \in [{ PanelFields(p)[k] : k \in DOMAIN PanelFields(p) }
                        -> Values \cup {"ON", "Charging"}] :
                \A fld \in DOMAIN g : g[fld] \in FieldValues(fld) } }

\* toLocaleString of the one timestamp of the model.
formatDateTime(ts) ==
  IF ts = "2024-01-01T00:00:00Z" THEN "1/1/2024, 12:00:00 AM" ELSE "Invalid Date"

\* A panel: the class and text of its status badge and the lines of its body.
Line(kind, label, value) == [kind |-> kind, label |-> label, value |-> value]

\* What the page's markup puts in a panel before any render.
Markup == [cls |-> "status-badge", text |-> "", body |-> <<>>]

\* x || dflt
OrElse(x, dflt) == IF x = Null THEN dflt ELSE x

\* part_000: the branch "if (!data)" of the four card functions.
NoDataCard(text) ==
  [ cls  |-> "status-badge status-error",
    text |-> "No Data",
    body |-> <<Line("error", "", text)>> ]

\* part_000: the error body of a card.
ErrorBody(data, dflt) ==
  << Line("error", "Error:", OrElse(data.error_message, dflt)),
     Line("timestamp", "", formatDateTime(data.timestamp)) >>

\* part_000: the badge of a PZEM, DHT22 or system card.
StatusBadge(data) ==
  IF data.status = "success"
    THEN [cls |-> "status-badge status-success", text |-> "Online"]
    ELSE [cls |-> "status-badge status-error", text |-> "Error"]

Card(badge, body) == [cls |-> badge.cls, text |-> badge.text, body |-> body]

Metric(label, data, fld, dflt) == Line("metric", label, OrElse(data.f[fld], dflt))

updatePZEMCard(deviceId, data) ==
  IF data = Absent THEN NoDataCard("No data available")
  ELSE IF data.status = "success" /\ data.parsed = "success"
    THEN Card(StatusBadge(data),
              IF deviceId = "pzem016"
                THEN << Metric("AC Voltage", data, "voltage_v", "0"),
                        Metric("AC Current", data, "current_a", "0"),
                        Metric("AC Power", data, "power_w", "0"),
                        Metric("Energy", data, "energy_kwh", "0"),
                        Metric("Frequency", data, "frequency_hz", "0"),
                        Metric("Power Factor", data, "power_factor", "0"),
                        Line("timestamp", "", formatDateTime(data.timestamp)) >>
                ELSE << Metric("Solar Voltage", data, "voltage_v", "0"),
                        Metric("Solar Current", data, "current_a", "0"),
                        Metric("Solar Power", data, "power_w", "0"),
                        Metric("Energy", data, "energy_kwh", "0"),
                        Line("control", "Status", OrElse(data.f["solar_status"], "Unknown")),
                        Line("timestamp", "", formatDateTime(data.timestamp)) >>)
    ELSE Card(StatusBadge(data), ErrorBody(data, "Failed to read sensor"))

updateDHT22Card(data) ==
  IF data = Absent THEN NoDataCard("No data available")
  ELSE IF data.status = "success"
    THEN Card(StatusBadge(data),
              << Metric("Temperature", data, "temperature", "0"),
                 Metric("Humidity", data, "humidity", "0"),
                 Line("timestamp", "", formatDateTime(data.timestamp)) >>)
    ELSE Card(StatusBadge(data), ErrorBody(data, "Sensor read failed"))

updateSystemCard(data) ==
  IF data = Absent THEN NoDataCard("No data available")
  ELSE IF data.status = "success"
    THEN Card(StatusBadge(data),
              << Metric("RAM Usage", data, "ram_usage_percent", "0"),
                 Metric("CPU Usage", data, "cpu_usage_percent", "0"),
                 Metric("Storage", data, "storage_usage_percent", "0"),
                 Metric("CPU Temp", data, "cpu_temperature", "0"),
                 Line("timestamp", "", formatDateTime(data.timestamp)) >>)
    ELSE Card(StatusBadge(data), ErrorBody(data, "System monitoring failed"))

updateRackCard(data) ==
  IF data = Absent THEN NoDataCard("No RACK data available")
  ELSE LET isOnline == data.status = "ONLINE" IN
       [ cls  |-> IF isOnline THEN "status-badge status-success"
                              ELSE "status-badge status-error",
         text |-> IF isOnline THEN "Online" ELSE "Offline",
         body |-> << Line("control", "Status", OrElse(data.status, "Unknown")),
                     Line("control", "Lamp", OrElse(data.f["lamp"], "OFF")),
                     Line("control", "Exhaust", OrElse(data.f["exhaust"], "OFF")),
                     Metric("Temperature", data, "temperature", "--"),
                     Metric("Humidity", data, "humidity", "--"),
                     Line("timestamp", "", formatDateTime(data.timestamp)) >> ]

\* part_000 updateDashboard, as far as panel p goes: its card function is
\* called with the reading, or with null when there is none.
updateDashboard(p, data) ==
  CASE p \in {"pzem016", "pzem017"} -> updatePZEMCard(p, data)
    [] p = "dht22"                  -> updateDHT22Card(data)
    [] p = "system"                 -> updateSystemCard(data)
    [] p = "rack"                   -> updateRackCard(data)

\* `${x}` of a field that is not there.
Interpolated(x) == IF x = Null THEN "undefined" ELSE x

\* script.js: the three panel functions set the badge text and the body
\* text; old is what the panel holds.
updateDHT22(old, d) ==
  [old EXCEPT !.text = IF d.status = "success" THEN "Online" ELSE "Error",
              !.body = << Line("metric", "Temp", Interpolated(d.f["temperature"])),
                          Line("metric", "Hum", Interpolated(d.f["humidity"])) >>]

updateSystem(old, d) ==
  [old EXCEPT !.text = IF d.status = "success" THEN "Online" ELSE "Error",
              !.body = << Line("metric", "CPU", Interpolated(d.f["cpu_usage_percent"])),
                          Line("metric", "RAM", Interpolated(d.f["ram_usage_percent"])) >>]

updateRack(old, d) ==
  [old EXCEPT !.text = IF d.status = "ONLINE" THEN "Online" ELSE "Offline",
              !.body = << Line("metric", "Temp", OrElse(d.f["temperature"], "-")),
                          Line("metric", "Hum", OrElse(d.f["humidity"], "-")) >>]

\* script.js updateDashboard, as far as panel p goes: a panel without a
\* reading is not touched.
script_updateDashboard(p, old, d) ==
  IF d = Absent THEN old
  ELSE CASE p = "dht22"  -> updateDHT22(old, d)
         [] p = "system" -> updateSystem(old, d)
         [] p = "rack"   -> updateRack(old, d)

\* A snapshot arrives that holds reading r, or none, for the followed panel.
showSnapshot(r) ==
  /\ variant = "part"
  /\ surface \in Panels(variant)
  /\ input' = r
  /\ shown' = updateDashboard(surface, r)
  /\ UNCHANGED <<page, surface, health, loaded, intervalEl, sched, cycles>>

script_showSnapshot(r) ==
  /\ variant = "script"
  /\ surface \in Panels(variant)
  /\ input' = r
  /\ shown' = script_updateDashboard(surface, shown, r)
  /\ UNCHANGED <<page, surface, health, loaded, intervalEl, sched, cycles>>

\* A page whose scheduler is left alone and one of whose panels is followed.
PanelInit ==
  /\ variant \in {"part", "script"}
  /\ backend = "up"
  /\ hasBtn = TRUE
  /\ intervalEl = NoElement
  /\ Scheduler0
  /\ Health0
  /\ surface \in Panels(variant)
  /\ input = NoInput
  /\ shown = Markup

PanelNext ==
  \/ \E r \in Readings(surface) \cup {Absent} : showSnapshot(r)
  \/ \E r \in Readings(surface) \cup {Absent} : script_showSnapshot(r)

PanelSpec == PanelInit /\ [][PanelNext]_vars

----------------------------------------------------------------------------
\* Cycles under fairness: every fetch settles and the continuation that
\* awaits it is run

\* A page with the toggle button and without the interval input.
LiveInit ==
  /\ variant \in {"part", "script"}
  /\ backend = "flaky"
  /\ hasBtn = TRUE
  /\ intervalEl = NoElement
  /\ Scheduler0
  /\ Health0
  /\ Render0

\* The page is loaded and left alone: cycles are started by the load, the
\* timer and the manual trigger, and run.
LiveNext ==
  \/ onDOMContentLoaded
  \/ script_onDOMContentLoaded
  \/ \E t \in timers : timerTick(t)
  \/ \E t \in timers : script_timerTick(t)
  \/ manualRefresh
  \/ script_manualRefresh
  \/ \E i \in DOMAIN cycles : refreshData(i)
  \/ \E i \in DOMAIN cycles : updateCharts(i)
  \/ \E i \in DOMAIN cycles : script_refreshData(i)
  \/ \E i \in DOMAIN cycles : script_updateCharts(i)

\* A fetch that is awaited settles, and the event loop then resumes the
\* function that awaits it.
Fairness ==
  \A i \in 1 .. MaxCycles :
    /\ WF_vars(refreshData(i))
    /\ WF_vars(updateCharts(i))
    /\ WF_vars(script_refreshData(i))
    /\ WF_vars(script_updateCharts(i))

LiveSpec == LiveInit /\ [][LiveNext]_vars /\ Fairness

----------------------------------------------------------------------------
\* Vocabulary of the properties

Running(c) == c.pc # "done"

\* Cycle i applies an effect (a panel, a chart, the last-updated time) in
\* this step.
Writes(i) == cycles'[i].wrote # cycles[i].wrote

\* A step that calls refreshData() from the timer callback.
StartsTimerCycle ==
  /\ Len(cycles') = Len(cycles) + 1
  /\ cycles'[Len(cycles')].trigger = "timer"

\* The interval the script computes from what #refreshInterval holds.
Configured(el) == IF variant = "part" THEN partInterval(el) ELSE scriptInterval(el)

\* #refreshInterval is absent, empty or holds a number (what it holds when
\* it holds other text is C19's matter).
Plain(el) == ~el.present \/ el.value = <<>> \/ parseInt(el.value) # NaN

\* Exactly one timer is armed, refreshTimer is its handle, n its interval.
ArmedWith(ts, h, n) == \E t \in ts : ts = {t} /\ t.id = h /\ t.interval = n

PanelSurfaces == {"panels", "powerFlow", "analysis"}

\* Everything the data of endpoint e is rendered into: part_000 draws the
\* power-flow diagram from the snapshot, script.js from /power_flow.
Renders(e) ==
  IF variant = "part" /\ e = "latest" THEN {"panels", "powerFlow"} ELSE {Feeds(e)}

----------------------------------------------------------------------------
\* C1: in every reachable state at most one refresh cycle is in flight (a
\* tick, the manual trigger or the initial load never starts a cycle while
\* another cycle still awaits its fetches).
C1_AtMostOneCycleInFlight ==
  Cardinality({ i \in DOMAIN cycles : Running(cycles[i]) }) <= 1

\* C2: a cycle applies an effect only once none of its fetches is outstanding:
\* after a step in which cycle i writes, cycle i awaits no fetch.
C2_EffectsAfterAllFetches ==
  [][\A i \in DOMAIN cycles : Writes(i) => InFlight(cycles'[i]) = {}]_vars

\* C3: once a manual refresh has started a newer cycle, an older cycle that
\* was still in flight writes nothing any more.
C3_SupersededCycleDiscarded ==
  [][\A i \in DOMAIN cycles :
       Writes(i) => ~ \E j \in DOMAIN cycles : j > i /\ cycles[j].trigger = "manual"]_vars

\* C4: at most one interval timer is armed in every reachable state, and it
\* is the one refreshTimer holds (no timer is leaked by start, pause, resume
\* or an interval change).
C4_AtMostOneTimer ==
  /\ Cardinality(timers) <= 1
  /\ \A t \in timers : t.id = refreshTimer

\* C4's case: a second timer has been armed (an interval change, or a pause
\* and resume) and it is the only one.
C4_Witness ==
  /\ loaded
  /\ refreshTimer = 2
  /\ Cardinality(timers) = 1

\* C5: pausing cancels the timer, no timer-triggered cycle starts while
\* paused, and resuming arms one timer with the configured interval.
C5_PauseResume ==
  [][/\ (autoRefreshEnabled /\ ~autoRefreshEnabled') => timers' = {}
     /\ ~autoRefreshEnabled => ~StartsTimerCycle
     /\ (~autoRefreshEnabled /\ autoRefreshEnabled' /\ Plain(intervalEl))
          => ArmedWith(timers', refreshTimer', Configured(intervalEl))]_vars

\* C6: an interval change while auto-refresh is enabled and a timer is armed
\* leaves, in the same step, exactly one timer armed, with the new interval.
C6_ReconfigureRearms ==
  [][(loaded /\ autoRefreshEnabled /\ timers # {} /\ intervalEl' # intervalEl
        /\ Plain(intervalEl'))
       => ArmedWith(timers', refreshTimer', Configured(intervalEl'))]_vars

\* C7: an interval change while paused arms no timer and starts no cycle, and
\* the next resume arms the timer with the interval the input then holds.
C7_ReconfigureWhilePaused ==
  [][/\ (loaded /\ ~autoRefreshEnabled /\ intervalEl' # intervalEl)
          => (timers' = timers /\ cycles' = cycles)
     /\ (~autoRefreshEnabled /\ autoRefreshEnabled' /\ Plain(intervalEl))
          => \A t \in timers' : t.interval = Configured(intervalEl)]_vars

\* C8: a step of a cycle that meets failing fetches changes neither the
\* enabled flag nor the armed timer nor its handle, and after a cycle has
\* ended in failure a tick of the armed timer still starts a cycle.
C8_FailedCycleKeepsScheduler ==
  /\ [][\A i \in DOMAIN cycles :
          (cycles'[i] # cycles[i] /\ cycles[i].down # {})
            => UNCHANGED sched]_vars
  /\ [](\A t \in timers :
          ( /\ autoRefreshEnabled
            /\ Len(cycles) < MaxCycles
            /\ \E i \in DOMAIN cycles :
                 ~Running(cycles[i]) /\ cycles[i].down = Endpoints(variant) )
          => ENABLED ((timerTick(t) \/ script_timerTick(t)) /\ StartsTimerCycle))

\* C8's case: a cycle whose fetches all failed has ended, auto-refresh is
\* still enabled with its timer armed, and a tick has started the next cycle.
C8_Witness ==
  /\ autoRefreshEnabled
  /\ timers # {}
  /\ \E i, j \in DOMAIN cycles :
       /\ i < j
       /\ ~Running(cycles[i])
       /\ cycles[i].down = Endpoints(variant)
       /\ cycles[j].trigger = "timer"
       /\ cycles[j].wrote = {}
       /\ Running(cycles[j])

\* C9: a cycle whose snapshot fetch failed has, when it ends, raised exactly
\* one notification and written no panel.
C9_SnapshotFailureNotifiesOnce ==
  \A i \in DOMAIN cycles :
    (~Running(cycles[i]) /\ fetchJson(cycles[i], "latest") = "fail")
      => (cycles[i].errors = 1 /\ cycles[i].wrote \cap PanelSurfaces = {})

\* C10: a cycle in which one fetch other than the snapshot fetch failed and
\* every other fetch is answered has, when it ends, updated everything the
\* other fetches feed.
C10_IndependentFailures ==
  \A i \in DOMAIN cycles :
    \A e \in Endpoints(variant) \ {"latest"} :
      (~Running(cycles[i]) /\ cycles[i].down = {e})
        => \A e2 \in Endpoints(variant) \ {e} : Feeds(e2) \in cycles[i].wrote

\* C11: a cycle never writes what a failed fetch of its own feeds: the panel
\* or chart of an endpoint whose fetch failed in cycle i is neither cleared
\* nor redrawn by cycle i, so it keeps what the last successful update drew.
C11_FailedFetchKeepsContent ==
  \A i \in DOMAIN cycles :
    \A e \in Endpoints(variant) :
      fetchJson(cycles[i], e) = "fail" => cycles[i].wrote \cap Renders(e) = {}

\* C11's case: a cycle has ended whose first time-series fetch failed after
\* its snapshot was drawn, and an earlier cycle had drawn that chart.
C11_Witness ==
  \E i, j \in DOMAIN cycles :
    /\ i < j
    /\ "chart_dht22" \in cycles[i].wrote
    /\ ~Running(cycles[j])
    /\ cycles[j].down = {"ts_dht22"}
    /\ "panels" \in cycles[j].wrote

\* C12: after a successful time-series fetch the chart holds only points of
\* that response: every label on the chart is the time of one of the
\* response's points, and every dataset has one value per label.
C12_FetchReplacesChart ==
  input.kind = "series" =>
    /\ \A n \in DOMAIN shown.labels :
         \E j \in DOMAIN input.data : shown.labels[n] = formatTime(input.data[j].timestamp)
    /\ \A k \in DOMAIN shown.datasets : Len(shown.datasets[k]) = Len(shown.labels)

\* C13: the health poll is independent of the refresh scheduler: a step of
\* the health poll changes neither the enabled flag, the armed timer, its
\* handle nor any refresh cycle; a health check that is not healthy raises
\* one notification; and the poll can fire whether auto-refresh is enabled
\* or paused.
C13_HealthPollIndependent ==
  /\ [][health' # health => UNCHANGED <<sched, cycles, loaded, intervalEl>>]_vars
  /\ [][\A r \in HealthAnswers \ {"ok"} :
          healthSettle(r) => health'.notes = health.notes + 1]_vars
  /\ [](health.started < MaxChecks => ENABLED healthTick)

\* C13's case: auto-refresh is paused, a refresh cycle is in flight, and a
\* health check made meanwhile has raised its notification.
C13_Witness ==
  /\ ~autoRefreshEnabled
  /\ timers = {}
  /\ health.notes > 0
  /\ \E i \in DOMAIN cycles : Running(cycles[i])

\* The kind of a panel's badge, read off its text.
BadgeKind(v) ==
  CASE v.text = "Online"              -> "Success"
    [] v.text \in {"Error", "Offline"} -> "Error"
    [] v.text = "No Data"             -> "Unknown"
    [] OTHER                          -> "None"

MetricLines(v) == { n \in DOMAIN v.body : v.body[n].kind = "metric" }

\* C14: once a snapshot without a reading for a panel has been rendered, the
\* panel's badge is of kind Unknown and its body is the single line saying
\* that no data is available, without any metric line (the rack card's "No
\* RACK data available" is taken for that line).
C14_AbsentReadingPanel ==
  input.kind = "absent" =>
    /\ BadgeKind(shown) = "Unknown"
    /\ Len(shown.body) = 1
    /\ shown.body[1].value \in {"No data available", "No RACK data available"}
    /\ MetricLines(shown) = {}

\* C15: once a reading whose status is an error has been rendered on its
\* panel, the badge says Error and the body has no metric line, whatever
\* metric fields the reading carries.
C15_ErrorReadingPanel ==
  (input.kind = "reading" /\ surface # "rack" /\ input.status = "error") =>
    /\ BadgeKind(shown) = "Error"
    /\ shown.text = "Error"
    /\ MetricLines(shown) = {}

\* C17: once a rack reading has been rendered, the badge is "Online" exactly
\* when the status is "ONLINE" and "Offline" for every other status string,
\* and the body has the status line with the status string as it came.
C17_RackStatus ==
  (input.kind = "reading" /\ surface = "rack" /\ input.status # Null) =>
    /\ shown.text = IF input.status = "ONLINE" THEN "Online" ELSE "Offline"
    /\ \E n \in DOMAIN shown.body :
         /\ shown.body[n].label = "Status"
         /\ shown.body[n].value = input.status

\* Every field the chart plots is there.
Complete(ch, d) == \A fld \in Fields(ch) : d.f[fld] # Null

\* The chart that plots the points pts as they are.
Plot(ch, pts) ==
  [ labels   |-> [j \in DOMAIN pts |-> formatTime(pts[j].timestamp)],
    datasets |-> [k \in DOMAIN Series(ch) |->
                    [j \in DOMAIN pts |-> pts[j].f[Series(ch)[k]]]] ]

\* C16: after a time-series response has been drawn, the chart plots the
\* response's points that have every plotted field, in their order and with
\* their own values, and no other point: no null and no zero put in place
\* of a null (a chart that also leaves out the complete points of readings
\* whose status is not 'success' is accepted).
C16_ChartOmitsNullPoints ==
  input.kind = "series" =>
    LET ok(d)   == Complete(surface, d)
        good(d) == Complete(surface, d) /\ d.status \in {"success", "ONLINE"}
    IN \/ shown = Plot(surface, SelectSeq(input.data, ok))
       \/ shown = Plot(surface, SelectSeq(input.data, good))

\* C18: every refresh cycle that has started ends, whether its fetches
\* succeed or fail, and no cycle is ever left with an error that nothing
\* caught.
C18_CycleEnds ==
  /\ \A i \in 1 .. MaxCycles :
       (i \in DOMAIN cycles) ~> (i \in DOMAIN cycles /\ ~Running(cycles[i]))
  /\ [](\A i \in DOMAIN cycles : cycles[i].pc # "uncaught")

\* C18's case: one cycle has ended after a failed fetch, another after all
\* its fetches were answered.
C18_Witness ==
  \E i, j \in DOMAIN cycles :
    /\ ~Running(cycles[i]) /\ cycles[i].down # {}
    /\ ~Running(cycles[j]) /\ cycles[j].down = {}
    /\ "lastUpdate" \in cycles[j].wrote

\* The default interval of the running script.
DefaultInterval == IF variant = "part" THEN 10000 ELSE 5000

\* The interval the input el asks for: the integer it holds, or the default
\* when it is absent, empty or not a number.
ValidInterval(el) ==
  IF ~el.present \/ el.value = <<>> \/ parseInt(el.value) = NaN
    THEN DefaultInterval
    ELSE parseInt(el.value)

\* C19: every timer that a step arms has the interval the input asks for at
\* that moment - its integer, or the script's default when the input is
\* absent, empty or not a number - and never NaN.
C19_ArmedIntervalValid ==
  [][\A t \in timers' \ timers :
       t.interval # NaN /\ t.interval = ValidInterval(intervalEl')]_vars

====
